---- MODULE Spec2Model ----
(***************************************************************************)
(* A model of watcher.py: the sale watcher that loads a brand list, fetches *)
(* every brand's page, runs the keyword / regex detectors on it and writes  *)
(* one JSON report.                                                         *)
(*                                                                          *)
(* Strings are sequences of one-character strings, so that substring tests, *)
(* upper-casing and the regular expressions are computed character by       *)
(* character as Python computes them.  An ASCII character is itself; a      *)
(* Hangul syllable is written by its code point, "U+C138".  None is the     *)
(* empty tuple and a present optional value v is the one-element tuple <<v>>.*)
(***************************************************************************)
EXTENDS Integers, Sequences, FiniteSets, TLC

\* ---------------------------------------------------------------------------
\* Strings
\* ---------------------------------------------------------------------------

\* The characters of an ASCII string literal, one element per character.
Chars(s) == [i \in 1..Len(s) |-> SubSeq(s, i, i)]

None == <<>>
Some(v) == <<v>>

LowerLetters == Chars("abcdefghijklmnopqrstuvwxyz")
UpperLetters == Chars("ABCDEFGHIJKLMNOPQRSTUVWXYZ")
DigitChars == Chars("0123456789")

\* str.upper() on one character of the model's alphabet (ASCII and Hangul).
UpperChar(c) ==
    IF \E i \in 1..Len(LowerLetters) : LowerLetters[i] = c
    THEN UpperLetters[CHOOSE i \in 1..Len(LowerLetters) : LowerLetters[i] = c]
    ELSE c

\* str.lower() on one character.
LowerChar(c) ==
    IF \E i \in 1..Len(UpperLetters) : UpperLetters[i] = c
    THEN LowerLetters[CHOOSE i \in 1..Len(UpperLetters) : UpperLetters[i] = c]
    ELSE c

\* text.upper()
StrUpper(s) == [i \in 1..Len(s) |-> UpperChar(s[i])]

\* src.lower()
StrLower(s) == [i \in 1..Len(s) |-> LowerChar(s[i])]

\* Python's `needle in hay` on strings.
Contains(needle, hay) ==
    \E i \in 0..(Len(hay) - Len(needle)) :
        SubSeq(hay, i + 1, i + Len(needle)) = needle

\* re.search(r"[A-Z]", kw)
HasUpperAZ(kw) ==
    \E i \in 1..Len(kw) : \E j \in 1..Len(UpperLetters) : kw[i] = UpperLetters[j]

\* The ASCII characters that \s of the regular expressions matches and that
\* str.strip() removes: blank, \t, \n, \v, \f, \r and the four separators
\* U+001C..U+001F.  A character without a TLA+ escape is named by its code
\* point.
WhitespaceChars ==
    { " ", "\t", "\n", "\r", "\f", "U+000B", "U+001C", "U+001D", "U+001E", "U+001F" }

\* \s of the regular expressions, on the model's alphabet.
IsSpace(c) == c \in WhitespaceChars

\* \d of the regular expressions, on the model's alphabet.
IsDigit(c) == \E j \in 1..Len(DigitChars) : DigitChars[j] = c

DigitVal(c) == (CHOOSE j \in 1..Len(DigitChars) : DigitChars[j] = c) - 1

\* str.strip()
RECURSIVE LStrip(_)
LStrip(s) == IF s /= <<>> /\ IsSpace(Head(s)) THEN LStrip(Tail(s)) ELSE s

RECURSIVE RStrip(_)
RStrip(s) ==
    IF s /= <<>> /\ IsSpace(s[Len(s)]) THEN RStrip(SubSeq(s, 1, Len(s) - 1)) ELSE s

Strip(s) == RStrip(LStrip(s))

\* Concatenation of a sequence of strings.
RECURSIVE Concat(_)
Concat(ss) == IF ss = <<>> THEN <<>> ELSE Head(ss) \o Concat(Tail(ss))

\* ---------------------------------------------------------------------------
\* Keyword tables
\* ---------------------------------------------------------------------------

\* Hangul syllables of the keyword tables, by code point.
Hangul ==
    [ se |-> "U+C138", il |-> "U+C77C", hal |-> "U+D560", in |-> "U+C778",
      peu |-> "U+D504", ro |-> "U+B85C", mo |-> "U+BAA8", syeon |-> "U+C158",
      teuk |-> "U+D2B9", ga |-> "U+AC00", hoe |-> "U+D68C", won |-> "U+C6D0",
      jeon |-> "U+C804", yong |-> "U+C6A9", gong |-> "U+ACF5",
      gae |-> "U+AC1C", keul |-> "U+D074", ri |-> "U+B9AC", eo |-> "U+C5B4",
      reon |-> "U+B7F0", seu |-> "U+C2A4", a |-> "U+C544", ul |-> "U+C6B8",
      ret |-> "U+B81B", peo |-> "U+D37C", beu |-> "U+BE0C",
      geup |-> "U+AE09", si |-> "U+C2DC", jeun |-> "U+C98C", o |-> "U+C624",
      choe |-> "U+CD5C", dae |-> "U+B300" ]

DEFAULT_KEYWORDS ==
    << Chars("SALE"), <<Hangul.se, Hangul.il>>, <<Hangul.hal, Hangul.in>>, Chars("OFF"), Chars("%"),
       Chars("UP TO"), Chars("EVENT"), <<Hangul.peu, Hangul.ro, Hangul.mo, Hangul.syeon>>,
       <<Hangul.teuk, Hangul.ga>> >>

MEMBERS_ONLY_KEYWORDS ==
    << Chars("MEMBERS ONLY"), Chars("MEMBER ONLY"),
       <<Hangul.hoe, Hangul.won, Hangul.jeon, Hangul.yong>>, <<Hangul.hoe, Hangul.won, " ", Hangul.jeon, Hangul.yong>>,
       <<Hangul.hoe, Hangul.won, Hangul.gong, Hangul.gae>>, Chars("LOGIN"), Chars("SIGN IN") >>

\* The rules with the members-only category moved to the front.
SALE_TYPE_RULES_members_first ==
    << [sale_type |-> Chars("members_only"),
        kws |-> << Chars("MEMBERS ONLY"), <<Hangul.hoe, Hangul.won, Hangul.jeon, Hangul.yong>>,
                   <<Hangul.hoe, Hangul.won, " ", Hangul.jeon, Hangul.yong>>,
                   <<Hangul.hoe, Hangul.won, Hangul.gong, Hangul.gae>> >>],
       [sale_type |-> Chars("clearance"),
        kws |-> << Chars("CLEARANCE"), <<Hangul.keul, Hangul.ri, Hangul.eo, Hangul.reon, Hangul.seu>>,
                   Chars("FINAL SALE"), Chars("OUTLET"), <<Hangul.a, Hangul.ul, Hangul.ret>> >>],
       [sale_type |-> Chars("refurb"),
        kws |-> << Chars("REFURB"), <<Hangul.ri, Hangul.peo, Hangul.beu>>, Chars("B-GRADE"),
                   Chars("B GRADE"), <<"B", Hangul.geup>>, <<Hangul.ri, Hangul.peo>> >>],
       [sale_type |-> Chars("season_off"),
        kws |-> << Chars("SEASON OFF"), Chars("SEASON-OFF"), Chars("SEASONOFF"),
                   <<Hangul.si, Hangul.jeun, Hangul.o, Hangul.peu>>, <<Hangul.si, Hangul.jeun, " ", Hangul.o, Hangul.peu>> >>] >>

SALE_TYPE_RULES ==
    << [sale_type |-> Chars("clearance"),
        kws |-> << Chars("CLEARANCE"), <<Hangul.keul, Hangul.ri, Hangul.eo, Hangul.reon, Hangul.seu>>,
                   Chars("FINAL SALE"), Chars("OUTLET"), <<Hangul.a, Hangul.ul, Hangul.ret>> >>],
       [sale_type |-> Chars("refurb"),
        kws |-> << Chars("REFURB"), <<Hangul.ri, Hangul.peo, Hangul.beu>>, Chars("B-GRADE"),
                   Chars("B GRADE"), <<"B", Hangul.geup>>, <<Hangul.ri, Hangul.peo>> >>],
       [sale_type |-> Chars("season_off"),
        kws |-> << Chars("SEASON OFF"), Chars("SEASON-OFF"), Chars("SEASONOFF"),
                   <<Hangul.si, Hangul.jeun, Hangul.o, Hangul.peu>>, <<Hangul.si, Hangul.jeun, " ", Hangul.o, Hangul.peu>> >>],
       [sale_type |-> Chars("members_only"),
        kws |-> << Chars("MEMBERS ONLY"), <<Hangul.hoe, Hangul.won, Hangul.jeon, Hangul.yong>>,
                   <<Hangul.hoe, Hangul.won, " ", Hangul.jeon, Hangul.yong>>,
                   <<Hangul.hoe, Hangul.won, Hangul.gong, Hangul.gae>> >>] >>

\* ---------------------------------------------------------------------------
\* Detectors
\* ---------------------------------------------------------------------------

\* A matcher that compares every keyword exactly.
KwMatches_exact(kw, text) == Contains(kw, text)

\* The branch shared by the three detectors: a keyword holding an A-Z letter
\* is compared upper-cased against the upper-cased text, any other keyword
\* by plain containment in the text.
KwMatches(kw, text) ==
    IF HasUpperAZ(kw) THEN Contains(StrUpper(kw), StrUpper(text))
    ELSE Contains(kw, text)

\* detect_sale: [is_sale, matched]
RECURSIVE detect_sale_from(_, _, _)
detect_sale_from(text, keywords, i) ==
    IF i > Len(keywords) THEN [is_sale |-> FALSE, matched |-> None]
    ELSE IF keywords[i] = <<>> THEN detect_sale_from(text, keywords, i + 1)
    ELSE IF KwMatches(keywords[i], text)
         THEN [is_sale |-> TRUE, matched |-> Some(keywords[i])]
    ELSE detect_sale_from(text, keywords, i + 1)

detect_sale(text, keywords) == detect_sale_from(text, keywords, 1)

detect_members_only(text) ==
    \E i \in 1..Len(MEMBERS_ONLY_KEYWORDS) : KwMatches(MEMBERS_ONLY_KEYWORDS[i], text)

\* The first rule of SALE_TYPE_RULES, from rule r on, one of whose keywords
\* matches; None when no rule does.
RECURSIVE infer_from_rules(_, _)
infer_from_rules(text, r) ==
    IF r > Len(SALE_TYPE_RULES) THEN None
    ELSE IF \E k \in 1..Len(SALE_TYPE_RULES[r].kws) :
                KwMatches(SALE_TYPE_RULES[r].kws[k], text)
         THEN Some(SALE_TYPE_RULES[r].sale_type)
    ELSE infer_from_rules(text, r + 1)

\* infer_sale_type: hint is None or Some(string); `if hint` is false for both
\* None and the empty string.
infer_sale_type(text, hint) ==
    IF hint /= None /\ hint[1] /= <<>> THEN hint
    ELSE infer_from_rules(text, 1)

\* ---------------------------------------------------------------------------
\* extract_max_discount
\* ---------------------------------------------------------------------------

\* The literal lit occurs in s at position i.
LitAt(s, i, lit) ==
    /\ i + Len(lit) - 1 <= Len(s)
    /\ SubSeq(s, i, i + Len(lit) - 1) = lit

\* \s* is greedy: the position after the whitespace that starts at i.
RECURSIVE SkipWs(_, _)
SkipWs(s, i) == IF i <= Len(s) /\ IsSpace(s[i]) THEN SkipWs(s, i + 1) ELSE i

\* The number of digits at i, i+1, ..., at most 3: what \d{1,3} takes first.
DigitRun(s, i) ==
    IF i <= Len(s) /\ IsDigit(s[i])
    THEN IF i + 1 <= Len(s) /\ IsDigit(s[i + 1])
         THEN IF i + 2 <= Len(s) /\ IsDigit(s[i + 2]) THEN 3 ELSE 2
         ELSE 1
    ELSE 0

\* int(x) of the k digits at i.
RECURSIVE DigitsToInt(_, _, _)
DigitsToInt(s, i, k) ==
    IF k = 0 THEN 0 ELSE DigitsToInt(s, i, k - 1) * 10 + DigitVal(s[i + k - 1])

\* \s*% at i: the position after the percent sign, or 0 when it does not match.
WsPercentAt(s, i) ==
    LET j == SkipWs(s, i) IN IF j <= Len(s) /\ s[j] = "%" THEN j + 1 ELSE 0

\* \s*%? at i: the position after the optional percent sign.
WsOptPercentAt(s, i) ==
    LET j == SkipWs(s, i) IN IF j <= Len(s) /\ s[j] = "%" THEN j + 1 ELSE j

NoMatch == [ok |-> FALSE, end |-> 0, caps |-> <<>>]

\* The largest member of a non-empty set of numbers.
SetMax(ns) == CHOOSE x \in ns : \A y \in ns : y <= x

\* A match of k digits at i that ends before position end.
NumMatch(s, i, k, end) == [ok |-> TRUE, end |-> end, caps |-> <<DigitsToInt(s, i, k)>>]

\* (\d{1,3})\s*% at i with the digit counts ks for which the rest matches:
\* \d{1,3} is greedy, so the largest count is the match.
BareOf(s, i, ks) ==
    IF ks = {} THEN NoMatch
    ELSE NumMatch(s, i, SetMax(ks), WsPercentAt(s, i + SetMax(ks)))

\* (\d{1,3})\s*% at i.  \d{1,3} gives digits back until the rest matches.
BareAt(s, i) == BareOf(s, i, {k \in 1..DigitRun(s, i) : WsPercentAt(s, i + k) /= 0})

\* (\d{1,3})\s*%? at j: the optional percent sign always matches.
NumOptPercentOf(s, j, k) ==
    IF k = 0 THEN NoMatch ELSE NumMatch(s, j, k, WsOptPercentAt(s, j + k))

\* The rest of a pattern after its keyword: \s*(\d{1,3})\s*%? at i.
NumOptPercentAt(s, i) == NumOptPercentOf(s, SkipWs(s, i), DigitRun(s, SkipWs(s, i)))

\* UP\s*TO\s*(\d{1,3})\s*%? at i.
UpToAt(s, i) ==
    IF LitAt(s, i, Chars("UP")) /\ LitAt(s, SkipWs(s, i + 2), Chars("TO"))
    THEN NumOptPercentAt(s, SkipWs(s, i + 2) + 2)
    ELSE NoMatch

\* (최대|MAX)\s*(\d{1,3})\s*%? at i; the number is the group the code reads.
MaxAt(s, i) ==
    IF LitAt(s, i, <<Hangul.choe, Hangul.dae>>) THEN NumOptPercentAt(s, i + 2)
    ELSE IF LitAt(s, i, Chars("MAX")) THEN NumOptPercentAt(s, i + 3)
    ELSE NoMatch

\* -\s*(\d{1,3})\s*% at j, for the range pattern.
DashNumPercentAt(s, j) ==
    IF j <= Len(s) /\ s[j] = "-" THEN BareAt(s, SkipWs(s, j + 1)) ELSE NoMatch

\* The range match whose first number has k digits and whose rest matched as r.
RangeMatch(s, i, k, r) ==
    [ok |-> TRUE, end |-> r.end, caps |-> <<DigitsToInt(s, i, k)>> \o r.caps]

RangeOf(s, i, ks) ==
    IF ks = {} THEN NoMatch
    ELSE RangeMatch(s, i, SetMax(ks), DashNumPercentAt(s, SkipWs(s, i + SetMax(ks))))

\* (\d{1,3})\s*-\s*(\d{1,3})\s*% at i.
RangeAt(s, i) ==
    RangeOf(s, i, {k \in 1..DigitRun(s, i) : DashNumPercentAt(s, SkipWs(s, i + k)).ok})

PatternAt(p, s, i) ==
    CASE p = "upto" -> UpToAt(s, i)
      [] p = "max" -> MaxAt(s, i)
      [] p = "range" -> RangeAt(s, i)
      [] p = "bare" -> BareAt(s, i)

\* re.findall: the matches from left to right, each search starting where
\* the previous match ended; the captured numbers, in order.
RECURSIVE FindAll(_, _, _)
FindAllStep(p, s, i, m) ==
    IF m.ok THEN m.caps \o FindAll(p, s, m.end) ELSE FindAll(p, s, i + 1)

FindAll(p, s, i) ==
    IF i > Len(s) THEN <<>> ELSE FindAllStep(p, s, i, PatternAt(p, s, i))

\* The four patterns in the order extract_max_discount applies them.
PATTERNS == <<"upto", "max", "range", "bare">>

\* nums after the four findall loops, before the bound filter.
CandidatesOf(upper) == Concat([k \in 1..Len(PATTERNS) |-> FindAll(PATTERNS[k], upper, 1)])

DiscountCandidates(text) == CandidatesOf(StrUpper(text))

MinDiscount == 1
MaxDiscount == 95

InBounds(n) == MinDiscount <= n /\ n <= MaxDiscount

\* The elements of a sequence of numbers that pass the bound filter.
Bounded(cands) == {n \in {cands[i] : i \in 1..Len(cands)} : InBounds(n)}

\* max(nums) if nums else None
MaxOrNone(nums) == IF nums = {} THEN None ELSE Some(SetMax(nums))

\* A cascade: the bare "n%" numbers count only when no high-confidence
\* candidate is within the bounds.
extract_max_discount_cascade(text) ==
    IF Bounded(FindAll("upto", StrUpper(text), 1) \o FindAll("max", StrUpper(text), 1)
                   \o FindAll("range", StrUpper(text), 1)) /= {}
    THEN MaxOrNone(Bounded(FindAll("upto", StrUpper(text), 1)
                       \o FindAll("max", StrUpper(text), 1)
                       \o FindAll("range", StrUpper(text), 1)))
    ELSE MaxOrNone(Bounded(FindAll("bare", StrUpper(text), 1)))

extract_max_discount(text) == MaxOrNone(Bounded(DiscountCandidates(text)))

\* ---------------------------------------------------------------------------
\* Pages.  html is the text fetch_html returned, character by character.
\* ---------------------------------------------------------------------------

\* ["'] of the regular expressions.
IsQuote(c) == c = "\"" \/ c = "'"

\* The lowercase literal lit occurs in s at position i whatever the case of
\* the letters of s (flags=re.I).
CiLitAt(s, i, lit) ==
    /\ i + Len(lit) - 1 <= Len(s)
    /\ \A j \in 1..Len(lit) : LowerChar(s[i + j - 1]) = lit[j]

\* The least member of a set of positions, 0 when the set is empty.
FirstOf(ps) == IF ps = {} THEN 0 ELSE CHOOSE p \in ps : \A q \in ps : p <= q

\* The position of the first occurrence of lit at or after i, up to letter
\* case; 0 when there is none.
CiFind(s, i, lit) ==
    IF \E k \in i..Len(s) : CiLitAt(s, k, lit)
    THEN CHOOSE k \in i..Len(s) :
             CiLitAt(s, k, lit) /\ \A j \in i..(k - 1) : ~CiLitAt(s, j, lit)
    ELSE 0

\* The position of the first ">" at or after i, 0 when there is none.
GtFrom(s, i) ==
    IF \E k \in i..Len(s) : s[k] = ">"
    THEN CHOOSE k \in i..Len(s) : s[k] = ">" /\ \A j \in i..(k - 1) : s[j] /= ">"
    ELSE 0

\* [^>] matches every character of s[a..b].
NoGt(s, a, b) == GtFrom(s, a) = 0 \/ GtFrom(s, a) > b

\* The first position at or after i where a block open ... close starts: a
\* block runs from open to the first close after it.  0 when there is none.
BlockFrom(s, i, open, close) ==
    FirstOf({k \in i..Len(s) :
                CiLitAt(s, k, open) /\ CiFind(s, k + Len(open), close) > 0})

\* s[i..] with the block that starts at k replaced by one blank.
RECURSIVE SubBlock(_, _, _, _)
SubBlockAt(s, i, k, open, close) ==
    IF k = 0 THEN SubSeq(s, i, Len(s))
    ELSE SubSeq(s, i, k - 1) \o <<" ">>
             \o SubBlock(s, CiFind(s, k + Len(open), close) + Len(close), open, close)

\* re.sub(open + r"[\s\S]*?" + close, " ", s, flags=re.I) from position i on.
SubBlock(s, i, open, close) == SubBlockAt(s, i, BlockFrom(s, i, open, close), open, close)

\* The first position at or after i where a tag starts: a tag runs from "<"
\* to the first ">" after it and holds at least one character in between.
\* 0 when there is none.
TagFrom(s, i) == FirstOf({k \in i..Len(s) : s[k] = "<" /\ GtFrom(s, k + 1) > k + 1})

\* s[i..] with the tag that starts at k replaced by one blank.
RECURSIVE SubTags(_, _)
SubTagsAt(s, i, k) ==
    IF k = 0 THEN SubSeq(s, i, Len(s))
    ELSE SubSeq(s, i, k - 1) \o <<" ">> \o SubTags(s, GtFrom(s, k + 1) + 1)

\* re.sub(r"<[^>]+>", " ", s) from position i on.
SubTags(s, i) == SubTagsAt(s, i, TagFrom(s, i))

\* s[i..] with the whitespace run that starts at k replaced by one blank.
RECURSIVE CollapseFrom(_, _)
CollapseAt(s, i, k) ==
    IF k = 0 THEN SubSeq(s, i, Len(s))
    ELSE SubSeq(s, i, k - 1) \o <<" ">> \o CollapseFrom(s, SkipWs(s, k))

\* re.sub(r"\s+", " ", s) from position i on.
CollapseFrom(s, i) == CollapseAt(s, i, FirstOf({k \in i..Len(s) : IsSpace(s[k])}))

\* re.sub(r"\s+", " ", text)
CollapseWs(s) == CollapseFrom(s, 1)

\* The first three substitutions of normalize_text, in the code's order.
StripTags(html) ==
    SubTags(SubBlock(SubBlock(html, 1, Chars("<script"), Chars("</script>")),
                     1, Chars("<style"), Chars("</style>")),
            1)

normalize_text(html) == Strip(CollapseWs(StripTags(html)))

\* ---------------------------------------------------------------------------
\* resolve_url.  urljoin, urlparse, urlsplit and urlunparse are those of the
\* standard library (urllib.parse of Python 3.11), modelled on the model's
\* alphabet: ASCII and Hangul syllables.
\* ---------------------------------------------------------------------------

\* _WHATWG_C0_CONTROL_OR_SPACE: the characters U+0000..U+0020.
C0_CONTROL_OR_SPACE ==
    { " ", "\t", "\n", "\r", "\f", "U+0000", "U+0001", "U+0002", "U+0003",
      "U+0004", "U+0005", "U+0006", "U+0007", "U+0008", "U+000B", "U+000E",
      "U+000F", "U+0010", "U+0011", "U+0012", "U+0013", "U+0014", "U+0015",
      "U+0016", "U+0017", "U+0018", "U+0019", "U+001A", "U+001B", "U+001C",
      "U+001D", "U+001E", "U+001F" }

\* The characters of a string, as a set.
CharSet(str) == {str[k] : k \in 1..Len(str)}

\* scheme_chars
scheme_chars == CharSet(LowerLetters \o UpperLetters \o DigitChars \o Chars("+-."))

uses_relative ==
    { Chars(""), Chars("ftp"), Chars("http"), Chars("gopher"), Chars("nntp"),
      Chars("imap"), Chars("wais"), Chars("file"), Chars("https"), Chars("shttp"),
      Chars("mms"), Chars("prospero"), Chars("rtsp"), Chars("rtsps"),
      Chars("rtspu"), Chars("sftp"), Chars("svn"), Chars("svn+ssh"), Chars("ws"),
      Chars("wss") }

uses_netloc ==
    uses_relative \cup
        { Chars("telnet"), Chars("snews"), Chars("rsync"), Chars("nfs"),
          Chars("git"), Chars("git+ssh") }

uses_params ==
    { Chars(""), Chars("ftp"), Chars("hdl"), Chars("prospero"), Chars("http"),
      Chars("imap"), Chars("https"), Chars("shttp"), Chars("rtsp"),
      Chars("rtsps"), Chars("rtspu"), Chars("sip"), Chars("sips"), Chars("mms"),
      Chars("sftp"), Chars("tel") }

\* s.find(c) + 1: the position of the first c in s, 0 when there is none.
Find(s, c) == FirstOf({k \in 1..Len(s) : s[k] = c})

\* s.split(c)
RECURSIVE Split(_, _)
Split(s, c) ==
    IF Find(s, c) = 0 THEN <<s>>
    ELSE <<SubSeq(s, 1, Find(s, c) - 1)>> \o Split(SubSeq(s, Find(s, c) + 1, Len(s)), c)

\* c.join(ss)
RECURSIVE Join(_, _)
Join(ss, c) ==
    IF ss = <<>> THEN <<>>
    ELSE IF Len(ss) = 1 THEN ss[1]
    ELSE ss[1] \o <<c>> \o Join(Tail(ss), c)

\* IPv4Address(s) does not raise: four decimal octets of at most three
\* digits, without leading zero, at most 255.
IPv4Valid(s) ==
    /\ Len(Split(s, ".")) = 4
    /\ \A k \in 1..4 :
          LET o == Split(s, ".")[k] IN
          /\ o /= <<>>
          /\ \A j \in 1..Len(o) : IsDigit(o[j])
          /\ Len(o) <= 3
          /\ (o = <<"0">> \/ o[1] /= "0")
          /\ DigitsToInt(o, 1, Len(o)) <= 255

\* IPv6Address._parse_hextet does not raise: one to four hexadecimal digits.
HextetValid(h) ==
    /\ h /= <<>>
    /\ Len(h) <= 4
    /\ \A j \in 1..Len(h) : h[j] \in CharSet(Chars("0123456789ABCDEFabcdef"))

\* IPv6Address._ip_int_from_string does not raise on the parts of an address,
\* an IPv4-style suffix already replaced by its two hextets.
IPv6PartsValid(parts) ==
    LET m == Len(parts)
        skips == {i \in 2..(m - 1) : parts[i] = <<>>}
        k == CHOOSE i \in skips : TRUE
        hi == IF parts[1] = <<>> THEN k - 2 ELSE k - 1
        lo == IF parts[m] = <<>> THEN m - k - 1 ELSE m - k
    IN  /\ m <= 9
        /\ IF skips = {}
           THEN /\ m = 8
                /\ \A i \in 1..m : HextetValid(parts[i])
           ELSE /\ Cardinality(skips) = 1
                /\ parts[1] = <<>> => hi = 0
                /\ parts[m] = <<>> => lo = 0
                /\ 8 - (hi + lo) >= 1
                /\ \A i \in 1..hi : HextetValid(parts[i])
                /\ \A i \in (m - lo + 1)..m : HextetValid(parts[i])

\* IPv6Address(s) does not raise, for s without "/".
IPv6Valid(s) ==
    LET pct == Find(s, "%")
        addr == IF pct = 0 THEN s ELSE SubSeq(s, 1, pct - 1)
        scope == IF pct = 0 THEN <<>> ELSE SubSeq(s, pct + 1, Len(s))
        parts == Split(addr, ":")
        last == parts[Len(parts)]
    IN  /\ pct > 0 => (scope /= <<>> /\ Find(scope, "%") = 0)
        /\ Len(parts) >= 3
        /\ IF Find(last, ".") > 0
           THEN /\ IPv4Valid(last)
                /\ IPv6PartsValid(SubSeq(parts, 1, Len(parts) - 1) \o <<Chars("0"), Chars("0")>>)
           ELSE IPv6PartsValid(parts)

\* _check_bracketed_host(hostname) does not raise: an IPvFuture address
\* v<hex>+.<any>+ or an IPv6 address.
BracketedHostValid(hostname) ==
    IF hostname /= <<>> /\ hostname[1] = "v"
    THEN LET dot == Find(hostname, ".") IN
         /\ dot >= 3
         /\ dot < Len(hostname)
         /\ \A j \in 2..(dot - 1) :
               hostname[j] \in CharSet(Chars("0123456789ABCDEFabcdef"))
    ELSE IPv6Valid(hostname)

\* The checks of urlsplit on netloc pass: brackets come in pairs and what
\* stands between the first "[" and the next "]" is a valid bracketed host.
NetlocValid(netloc) ==
    LET open == Find(netloc, "[")
        after == SubSeq(netloc, open + 1, Len(netloc))
        close == Find(after, "]")
    IN  IF open = 0 /\ Find(netloc, "]") = 0 THEN TRUE
        ELSE IF open = 0 \/ Find(netloc, "]") = 0 THEN FALSE
        ELSE BracketedHostValid(IF close = 0 THEN after ELSE SubSeq(after, 1, close - 1))

\* What urlsplit does to its two arguments first: url is lstripped of C0
\* control or space, scheme is stripped of them at both ends (bothEnds), then
\* every tab, carriage return and newline is removed from each.
UrlClean(s, bothEnds) ==
    LET keep == {k \in 1..Len(s) : s[k] \notin C0_CONTROL_OR_SPACE}
    IN  IF keep = {} THEN <<>>
        ELSE SelectSeq(SubSeq(s, FirstOf(keep),
                              IF bothEnds THEN SetMax(keep) ELSE Len(s)),
                       LAMBDA c : c \notin {"\t", "\r", "\n"})

\* The position of the ":" that ends the scheme of u, 0 when u has none.
SchemeEnd(u) ==
    IF /\ Find(u, ":") >= 2
       /\ u[1] \in CharSet(LowerLetters \o UpperLetters)
       /\ \A k \in 1..(Find(u, ":") - 1) : u[k] \in scheme_chars
    THEN Find(u, ":")
    ELSE 0

\* s.partition(c): before the first c and after it; tail is empty when s
\* holds no c.
Partition(s, c) ==
    IF Find(s, c) = 0 THEN [head |-> s, tail |-> <<>>]
    ELSE [head |-> SubSeq(s, 1, Find(s, c) - 1),
          tail |-> SubSeq(s, Find(s, c) + 1, Len(s))]

\* The path and the params of urlparse: _splitparams(url) for a scheme that
\* uses params, the path alone otherwise.
SplitParams(scheme, url) ==
    LET slash == SetMax({0} \cup {k \in 1..Len(url) : url[k] = "/"})
        semi == FirstOf({k \in 1..Len(url) : k >= slash /\ url[k] = ";"})
    IN  IF scheme \notin uses_params \/ semi = 0 THEN [path |-> url, params |-> <<>>]
        ELSE [path |-> SubSeq(url, 1, semi - 1),
              params |-> SubSeq(url, semi + 1, Len(url))]

\* The scheme of u, lowercased, and what follows its ":"; the default scheme
\* and u itself when u has no scheme.
SplitScheme(u, scheme) ==
    IF SchemeEnd(u) = 0 THEN [scheme |-> scheme, rest |-> u]
    ELSE [scheme |-> StrLower(SubSeq(u, 1, SchemeEnd(u) - 1)),
          rest |-> SubSeq(u, SchemeEnd(u) + 1, Len(u))]

\* Where the netloc of rest ends: the position of the first "/", "?" or "#"
\* after the leading "//", Len(rest) + 1 when there is none.
NetlocEnd(rest) ==
    FirstOf({k \in 3..(Len(rest) + 1) : k > Len(rest) \/ rest[k] \in {"/", "?", "#"}})

\* _splitnetloc(url, 2) when rest starts with "//".
SplitNetloc(rest) ==
    IF Len(rest) >= 2 /\ rest[1] = "/" /\ rest[2] = "/"
    THEN [netloc |-> SubSeq(rest, 3, NetlocEnd(rest) - 1),
          tail |-> SubSeq(rest, NetlocEnd(rest), Len(rest))]
    ELSE [netloc |-> <<>>, tail |-> rest]

\* The result of urlsplit for a scheme and the parts n of what follows it;
\* raised when urlsplit raises ValueError.
SplitResult(scheme, n) ==
    [raised |-> ~NetlocValid(n.netloc), scheme |-> scheme, netloc |-> n.netloc,
     path |-> Partition(Partition(n.tail, "#").head, "?").head,
     query |-> Partition(Partition(n.tail, "#").head, "?").tail,
     fragment |-> Partition(n.tail, "#").tail]

SplitResultOf(s) == SplitResult(s.scheme, SplitNetloc(s.rest))

\* urlsplit(url, scheme)
urlsplit(url, scheme) ==
    SplitResultOf(SplitScheme(UrlClean(url, FALSE), UrlClean(scheme, TRUE)))

\* The result of urlparse from that of urlsplit.
ParseResult(sp) ==
    [raised |-> sp.raised, scheme |-> sp.scheme, netloc |-> sp.netloc,
     path |-> SplitParams(sp.scheme, sp.path).path,
     params |-> SplitParams(sp.scheme, sp.path).params,
     query |-> sp.query, fragment |-> sp.fragment]

\* urlparse(url, scheme)
urlparse(url, scheme) == ParseResult(urlsplit(url, scheme))

\* urlunparse((scheme, netloc, path, params, query, fragment))
urlunparse(scheme, netloc, path, params, query, fragment) ==
    LET url == IF params /= <<>> THEN path \o <<";">> \o params ELSE path
        slashes == Len(url) >= 2 /\ url[1] = "/" /\ url[2] = "/"
        rooted == IF url /= <<>> /\ url[1] /= "/" THEN <<"/">> \o url ELSE url
        located == IF netloc /= <<>>
                      \/ (scheme /= <<>> /\ scheme \in uses_netloc /\ ~slashes)
                   THEN Chars("//") \o netloc \o rooted
                   ELSE url
    IN  (IF scheme /= <<>> THEN scheme \o <<":">> ELSE <<>>)
            \o located
            \o (IF query /= <<>> THEN <<"?">> \o query ELSE <<>>)
            \o (IF fragment /= <<>> THEN <<"#">> \o fragment ELSE <<>>)

\* The segments urljoin resolves: those of the reference alone when it starts
\* at the root, else those of the base without its last one followed by those
\* of the reference, the empty ones in between dropped.
Segments(bpath, path) ==
    LET bp == Split(bpath, "/")
        base_parts == IF bp[Len(bp)] /= <<>> THEN SubSeq(bp, 1, Len(bp) - 1) ELSE bp
        all == base_parts \o Split(path, "/")
        n == Len(all)
    IN  IF path /= <<>> /\ path[1] = "/" THEN Split(path, "/")
        ELSE IF n <= 2 THEN all
        ELSE <<all[1]>> \o SelectSeq(SubSeq(all, 2, n - 1), LAMBDA seg : seg /= <<>>)
                 \o <<all[n]>>

\* The loop of urljoin over segments[i..]: ".." drops the last segment kept,
\* "." is skipped.
RECURSIVE ResolveDots(_, _, _)
ResolveDots(segments, i, kept) ==
    IF i > Len(segments) THEN kept
    ELSE IF segments[i] = Chars("..")
         THEN ResolveDots(segments, i + 1, SubSeq(kept, 1, Len(kept) - 1))
    ELSE IF segments[i] = Chars(".") THEN ResolveDots(segments, i + 1, kept)
    ELSE ResolveDots(segments, i + 1, Append(kept, segments[i]))

\* "/".join(resolved_path) or "/"
ResolvedPath(segments) ==
    LET kept == ResolveDots(segments, 1, <<>>)
        joined == Join(IF segments[Len(segments)] \in {Chars("."), Chars("..")}
                       THEN Append(kept, <<>>) ELSE kept, "/")
    IN  IF joined = <<>> THEN <<"/">> ELSE joined

\* urljoin(base, url) for non-empty base and url, b and r being what urlparse
\* makes of them; raised when urlsplit raised ValueError.
JoinParsed(url, b, r) ==
    IF b.raised \/ r.raised THEN [raised |-> TRUE, url |-> <<>>]
    ELSE IF r.scheme /= b.scheme \/ r.scheme \notin uses_relative
         THEN [raised |-> FALSE, url |-> url]
    ELSE IF r.scheme \in uses_netloc /\ r.netloc /= <<>>
         THEN [raised |-> FALSE,
               url |-> urlunparse(r.scheme, r.netloc, r.path, r.params, r.query,
                                  r.fragment)]
    ELSE [raised |-> FALSE,
          url |-> urlunparse(r.scheme,
                             IF r.scheme \in uses_netloc THEN b.netloc ELSE r.netloc,
                             IF r.path = <<>> /\ r.params = <<>> THEN b.path
                             ELSE ResolvedPath(Segments(b.path, r.path)),
                             IF r.path = <<>> /\ r.params = <<>> THEN b.params
                             ELSE r.params,
                             IF r.path = <<>> /\ r.params = <<>> /\ r.query = <<>>
                             THEN b.query ELSE r.query,
                             r.fragment)]

\* The reference is parsed with the scheme of the base as its default.
JoinFrom(url, b) == JoinParsed(url, b, urlparse(url, b.scheme))

\* urljoin(base, url): raised when it raises ValueError.
urljoin(base, url) ==
    IF base = <<>> THEN [raised |-> FALSE, url |-> url]
    ELSE IF url = <<>> THEN [raised |-> FALSE, url |-> base]
    ELSE JoinFrom(url, urlparse(base, <<>>))

\* What resolve_url returns when urljoin answered j.
JoinedOr(j, maybe) == IF j.raised THEN maybe ELSE j.url

\* resolve_url: urljoin(base, maybe), and maybe when urljoin raises.
resolve_url(base, maybe) == JoinedOr(urljoin(base, maybe), maybe)

\* ---------------------------------------------------------------------------
\* extract_auto_image
\* ---------------------------------------------------------------------------

IMG_DENYLIST ==
    << Chars("logo"), Chars("icon"), Chars("sprite"), Chars("blank"),
       Chars("loading"), Chars("common") >>

IMG_EXTENSIONS == << Chars(".jpg"), Chars(".jpeg"), Chars(".png"), Chars(".webp") >>

\* An <img> test that looks at the extension only.
ImgAccepted_extension_only(src) ==
    \E k \in 1..Len(IMG_EXTENSIONS) : Contains(IMG_EXTENSIONS[k], StrLower(src))

\* The two tests of the <img> loop on one src.
ImgAccepted(src) ==
    LET s == StrLower(src) IN
    /\ ~\E k \in 1..Len(IMG_DENYLIST) : Contains(IMG_DENYLIST[k], s)
    /\ \E k \in 1..Len(IMG_EXTENSIONS) : Contains(IMG_EXTENSIONS[k], s)

MaxImgs == 60

\* The position of the first quote character at or after i, 0 when none.
QuoteFrom(s, i) ==
    IF \E k \in i..Len(s) : IsQuote(s[k])
    THEN CHOOSE k \in i..Len(s) :
             IsQuote(s[k]) /\ \A j \in i..(k - 1) : ~IsQuote(s[j])
    ELSE 0

\* key=["']([^"']+)["'] at p, key ending in "=": the position of the last
\* character of the group, which starts at p + Len(key) + 1 and runs to the
\* character before the next quote; 0 when the expression does not match.
AttrValueAt(s, p, key) ==
    IF /\ CiLitAt(s, p, key)
       /\ p + Len(key) <= Len(s)
       /\ IsQuote(s[p + Len(key)])
       /\ QuoteFrom(s, p + Len(key) + 1) > p + Len(key) + 1
    THEN QuoteFrom(s, p + Len(key) + 1) - 1
    ELSE 0

\* key=["']val["'] at p: the position after the closing quote, 0 when the
\* expression does not match.
AttrLitAt(s, p, key, val) ==
    IF /\ CiLitAt(s, p, key)
       /\ p + Len(key) <= Len(s)
       /\ IsQuote(s[p + Len(key)])
       /\ CiLitAt(s, p + Len(key) + 1, val)
       /\ p + Len(key) + 1 + Len(val) <= Len(s)
       /\ IsQuote(s[p + Len(key) + 1 + Len(val)])
    THEN p + Len(key) + Len(val) + 2
    ELSE 0

\* The positions c after q where content=["']([^"']+)["'] matches and that
\* [^>]+, started at q, can reach.
ContentPositions(s, q) ==
    {c \in (q + 1)..Len(s) :
        AttrValueAt(s, c, Chars("content=")) > 0 /\ NoGt(s, q, c - 1)}

\* [^>]+content=["']([^"']+)["'] at q: [^>]+ is greedy, so the group is that
\* of the last position it can reach; None when the expression does not
\* match.
ContentFrom(s, q) ==
    IF q = 0 \/ ContentPositions(s, q) = {} THEN None
    ELSE Some(SubSeq(s, SetMax(ContentPositions(s, q)) + 9,
                     AttrValueAt(s, SetMax(ContentPositions(s, q)), Chars("content="))))

\* The positions p where key=["']val["'] matches, that [^>]+ started after
\* "<meta" at i can reach, and after which the rest of the expression matches.
MetaPositions(s, i, key, val) ==
    {p \in (i + 6)..Len(s) :
        /\ AttrLitAt(s, p, key, val) > 0
        /\ NoGt(s, i + 5, p - 1)
        /\ ContentFrom(s, AttrLitAt(s, p, key, val)) /= None}

\* <meta[^>]+key=["']val["'][^>]+content=["']([^"']+)["'] at i: the group,
\* None when the expression does not match there.
MetaAt(s, i, key, val) ==
    IF ~CiLitAt(s, i, Chars("<meta")) \/ MetaPositions(s, i, key, val) = {} THEN None
    ELSE ContentFrom(s, AttrLitAt(s, SetMax(MetaPositions(s, i, key, val)), key, val))

\* The group of the match at i, None when i is 0.
MetaGroup(s, i, key, val) == IF i = 0 THEN None ELSE MetaAt(s, i, key, val)

\* re.search of that expression: the group of the leftmost match, None when
\* there is no match.
SearchMeta(s, key, val) ==
    MetaGroup(s, FirstOf({i \in 1..Len(s) : MetaAt(s, i, key, val) /= None}), key, val)

\* The positions p where src=["']([^"']+)["'] matches and that [^>]+ started
\* after "<img" at i can reach: those up to the first ">" after "<img".
SrcPositions(s, i) ==
    {p \in (i + 5)..(IF GtFrom(s, i + 4) = 0 THEN Len(s) ELSE GtFrom(s, i + 4)) :
        AttrValueAt(s, p, Chars("src=")) > 0}

\* <img[^>]+src=["']([^"']+)["'] matches at i.
ImgAt(s, i) == CiLitAt(s, i, Chars("<img")) /\ SrcPositions(s, i) /= {}

\* The position of the last character of the group of the match at i.
ImgSrcEnd(s, i) == AttrValueAt(s, SetMax(SrcPositions(s, i)), Chars("src="))

\* The group of the match at i.
ImgSrc(s, i) == SubSeq(s, SetMax(SrcPositions(s, i)) + 5, ImgSrcEnd(s, i))

\* The search of re.findall from position i on, over the next m occurrences
\* of "<img" at most: srcs holds the groups of the matches, left to right,
\* and next is where the search goes on, after the last match or after an
\* "<img" at which the expression does not match; next is 0 when no "<img"
\* is left.  The occurrences are taken half by half.
RECURSIVE FindImgsRun(_, _, _)
FindImgsThen(s, a, m) ==
    IF a.next = 0 THEN a
    ELSE LET b == FindImgsRun(s, a.next, m)
         IN  [srcs |-> a.srcs \o b.srcs, next |-> b.next]

FindImgsRun(s, i, m) ==
    IF m <= 1
    THEN LET k == CiFind(s, i, Chars("<img"))
         IN  IF k = 0 THEN [srcs |-> <<>>, next |-> 0]
             ELSE IF ImgAt(s, k)
                  THEN [srcs |-> <<ImgSrc(s, k)>>, next |-> ImgSrcEnd(s, k) + 2]
             ELSE [srcs |-> <<>>, next |-> k + 1]
    ELSE FindImgsThen(s, FindImgsRun(s, i, m \div 2), m - (m \div 2))

\* re.findall of that expression: the groups of the matches, left to right,
\* each search starting after the previous match.  A page of n characters
\* holds fewer than n occurrences of "<img".
FindImgs(s) == FindImgsRun(s, 1, Len(s)).srcs

\* for src in imgs[:60]: the first accepted src, None when there is none.
FirstImg(imgs) ==
    LET ok == {i \in 1..Len(imgs) : i <= MaxImgs /\ ImgAccepted(imgs[i])}
    IN  IF ok = {} THEN None ELSE Some(imgs[FirstOf(ok)])

\* The attribute extract_auto_image settles on: the og:image content, else
\* the twitter:image content, else the first accepted <img> source; None when
\* the page has none.
ImageCandidate(html) ==
    LET og == SearchMeta(html, Chars("property="), Chars("og:image"))
        tw == SearchMeta(html, Chars("name="), Chars("twitter:image"))
    IN  IF og /= None THEN og
        ELSE IF tw /= None THEN tw
        ELSE FirstImg(FindImgs(html))

\* return resolve_url(page_url, candidate.strip()), None without candidate.
ResolveCandidate(page_url, cand) ==
    IF cand = None THEN None ELSE Some(resolve_url(page_url, Strip(cand[1])))

extract_auto_image(html, page_url) == ResolveCandidate(page_url, ImageCandidate(html))

\* ---------------------------------------------------------------------------
\* Brand lists
\* ---------------------------------------------------------------------------

Brand(name, country, url, sale_type_hint, keywords_extra, image) ==
    [name |-> name, country |-> country, url |-> url,
     sale_type_hint |-> sale_type_hint, keywords_extra |-> keywords_extra,
     image |-> image]

\* `x or None` on a string.
OrNone(str) == IF str = <<>> THEN None ELSE Some(str)

\* str.split("|")
RECURSIVE SplitBar(_, _)
SplitBar(str, piece) ==
    IF str = <<>> THEN <<piece>>
    ELSE IF Head(str) = "|" THEN <<piece>> \o SplitBar(Tail(str), <<>>)
    ELSE SplitBar(Tail(str), Append(piece, Head(str)))

\* [x.strip() for x in pieces if x.strip()]
RECURSIVE StripNonEmpty(_)
StripNonEmpty(pieces) ==
    IF pieces = <<>> THEN <<>>
    ELSE (IF Strip(Head(pieces)) = <<>> THEN <<>> ELSE <<Strip(Head(pieces))>>)
             \o StripNonEmpty(Tail(pieces))

REQUIRED_COLUMNS ==
    {"name", "country", "url", "sale_type_hint", "keywords_extra", "image"}

KR == Chars("KR")

\* A loader that drops a row only when name and url are both blank.
RECURSIVE BrandsOfRows_and(_)
BrandsOfRows_and(rows) ==
    IF rows = <<>> THEN <<>>
    ELSE (IF Strip(Head(rows).name) = <<>> /\ Strip(Head(rows).url) = <<>> THEN <<>>
          ELSE << Brand(Strip(Head(rows).name), KR, Strip(Head(rows).url),
                        OrNone(Strip(Head(rows).sale_type_hint)), <<>>,
                        OrNone(Strip(Head(rows).image))) >>)
             \o BrandsOfRows_and(Tail(rows))

\* The rows loop of load_brands_from_csv.
RECURSIVE BrandsOfRows(_)
BrandsOfRows(rows) ==
    IF rows = <<>> THEN <<>>
    ELSE LET row == Head(rows)
             name == Strip(row.name)
             country == IF Strip(row.country) = <<>> THEN KR ELSE Strip(row.country)
             url == Strip(row.url)
             keywords_extra_raw == Strip(row.keywords_extra)
             extra == IF keywords_extra_raw = <<>> THEN <<>>
                      ELSE StripNonEmpty(SplitBar(keywords_extra_raw, <<>>))
         IN  (IF name = <<>> \/ url = <<>> THEN <<>>
              ELSE << Brand(name, country, url, OrNone(Strip(row.sale_type_hint)),
                            extra, OrNone(Strip(row.image))) >>)
                 \o BrandsOfRows(Tail(rows))

\* A loader that takes a missing column for an empty brands.csv.
load_brands_from_csv_lenient(file) ==
    IF file = None \/ ~(REQUIRED_COLUMNS \subseteq file[1].fieldnames)
    THEN [raised |-> FALSE, brands |-> <<>>]
    ELSE [raised |-> FALSE, brands |-> BrandsOfRows(file[1].rows)]

\* load_brands_from_csv.  file is None when brands.csv does not exist, else
\* Some([fieldnames, rows]).  raised: the ValueError of a missing column.
load_brands_from_csv(file) ==
    IF file = None THEN [raised |-> FALSE, brands |-> <<>>]
    ELSE IF ~(REQUIRED_COLUMNS \subseteq file[1].fieldnames)
         THEN [raised |-> TRUE, brands |-> <<>>]
    ELSE [raised |-> FALSE, brands |-> BrandsOfRows(file[1].rows)]

\* The entries loop of load_brands_from_yaml: an entry holds name, url,
\* country (None when the key is absent), sale_type_hint (None when absent)
\* and signals_any, the list under signals[0]["any"] (empty when absent).
RECURSIVE BrandsOfEntries(_)
BrandsOfEntries(raw) ==
    IF raw = <<>> THEN <<>>
    ELSE LET b == Head(raw)
             name == Strip(b.name)
             url == Strip(b.url)
             country == IF b.country = None \/ b.country[1] = <<>> THEN KR
                        ELSE Strip(b.country[1])
             hint == IF b.sale_type_hint = None \/ b.sale_type_hint[1] = <<>>
                     THEN None ELSE b.sale_type_hint
         IN  (IF name /= <<>> /\ url /= <<>>
              THEN << Brand(name, country, url, hint,
                            StripNonEmpty(b.signals_any), None) >>
              ELSE <<>>)
                 \o BrandsOfEntries(Tail(raw))

\* load_brands_from_yaml.  file is None when config.yaml does not exist;
\* lib tells whether PyYAML can be imported.
load_brands_from_yaml(file, lib) ==
    IF file = None THEN <<>>
    ELSE IF ~lib THEN <<>>
    ELSE BrandsOfEntries(file[1])

\* load_brands: [raised, brands, source]
load_brands(csv, yaml, lib) ==
    LET c == load_brands_from_csv(csv) IN
    IF c.raised THEN [raised |-> TRUE, brands |-> <<>>, source |-> "none"]
    ELSE IF c.brands /= <<>>
         THEN [raised |-> FALSE, brands |-> c.brands, source |-> "csv"]
    ELSE LET y == load_brands_from_yaml(yaml, lib) IN
         IF y /= <<>> THEN [raised |-> FALSE, brands |-> y, source |-> "yaml"]
         ELSE [raised |-> TRUE, brands |-> <<>>, source |-> "none"]

\* ---------------------------------------------------------------------------
\* main
\* ---------------------------------------------------------------------------

MEMBERS_ONLY == Chars("members_only")

\* A try branch whose fallback overwrites whatever infer_sale_type returned.
NormalRecord_fallback_always(b, html, checked) ==
    [brand |-> b.name, url |-> b.url, country |-> b.country,
     status |-> IF detect_sale(normalize_text(html), DEFAULT_KEYWORDS \o b.keywords_extra).is_sale
                THEN "sale" ELSE "no_sale",
     error |-> None,
     sale_type |-> IF detect_members_only(normalize_text(html)) THEN Some(MEMBERS_ONLY)
                   ELSE infer_sale_type(normalize_text(html), b.sale_type_hint),
     matched_keyword |->
         detect_sale(normalize_text(html), DEFAULT_KEYWORDS \o b.keywords_extra).matched,
     members_only |-> detect_members_only(normalize_text(html)),
     max_discount_hint |-> extract_max_discount(normalize_text(html)),
     checked_at |-> checked,
     image |-> IF b.image /= None THEN b.image ELSE extract_auto_image(html, b.url)]

\* The record of the try branch of main's loop, for brand b and its page.
NormalRecord(b, html, checked) ==
    LET text == normalize_text(html)
        keywords == DEFAULT_KEYWORDS \o b.keywords_extra
        ds == detect_sale(text, keywords)
        members_only == detect_members_only(text)
        inferred == infer_sale_type(text, b.sale_type_hint)
        sale_type == IF members_only /\ (inferred = None \/ inferred[1] = <<>>)
                     THEN Some(MEMBERS_ONLY) ELSE inferred
        max_discount == extract_max_discount(text)
        auto_image == extract_auto_image(html, b.url)
        image_final == IF b.image /= None /\ b.image[1] /= <<>> THEN b.image
                       ELSE auto_image
    IN  [brand |-> b.name, url |-> b.url, country |-> b.country,
         status |-> IF ds.is_sale THEN "sale" ELSE "no_sale",
         error |-> None,
         sale_type |-> sale_type, matched_keyword |-> ds.matched,
         members_only |-> members_only, max_discount_hint |-> max_discount,
         checked_at |-> checked, image |-> image_final]

\* The record of the except branch: e is str(e) of the exception caught.
ErrorRecord(b, e, checked) ==
    [brand |-> b.name, url |-> b.url, country |-> b.country,
     status |-> "error", error |-> Some(e),
     sale_type |-> b.sale_type_hint, matched_keyword |-> None,
     members_only |-> FALSE, max_discount_hint |-> None,
     checked_at |-> checked, image |-> None]

\* The steps of the try block after fetch_html, in the order main runs them.
STEPS ==
    << "normalize_text", "detect_sale", "detect_members_only", "infer_sale_type",
       "extract_max_discount", "extract_auto_image" >>

\* One iteration of main's loop once fetch_html has answered resp: the
\* record appended, and whether extract_auto_image was called.  main calls it
\* whenever every earlier step returned, whatever b.image holds.
Iteration(b, resp, fault, checked) ==
    IF ~resp.ok THEN [record |-> ErrorRecord(b, resp.error, checked), extracted |-> FALSE]
    ELSE IF fault.step = "none"
         THEN [record |-> NormalRecord(b, resp.html, checked), extracted |-> TRUE]
    ELSE [record |-> ErrorRecord(b, fault.error, checked),
          extracted |-> fault.step = "extract_auto_image"]

\* ---------------------------------------------------------------------------
\* The run: state
\* ---------------------------------------------------------------------------

VARIABLES
    csv_file,     \* brands.csv: None, or Some([fieldnames, rows])
    yaml_file,    \* config.yaml: None, or Some(entries)
    yaml_lib,     \* whether PyYAML can be imported
    pc,           \* where main is: "start", "loop", "fetched", "done", "aborted"
    brands,       \* main's brands
    source,       \* the loader that produced brands: "csv", "yaml", "none"
    checked_at,   \* main's checked_at
    cur,          \* what fetch_html answered for the brand being processed
    results,      \* main's results
    extracted,    \* per record, whether extract_auto_image was called for it
    fetches,      \* the number of fetch_html calls so far
    written,      \* the number of times outputs/sales.json was written
    out_file,     \* outputs/sales.json: None, or Some(records)
    arg,          \* the arguments of a detector called on its own
    ret           \* what it returned

vars ==
    << csv_file, yaml_file, yaml_lib, pc, brands, source, checked_at, cur,
       results, extracted, fetches, written, out_file, arg, ret >>

env == <<csv_file, yaml_file, yaml_lib>>

\* ---------------------------------------------------------------------------
\* The run: inputs
\* ---------------------------------------------------------------------------

MaxRows == 2

URL_A == Chars("https://a.kr/s")
URL_B == Chars("http://b.kr")

Row(name, url, hint, extra, image) ==
    [name |-> Chars(name), country |-> <<>>, url |-> url,
     sale_type_hint |-> Chars(hint), keywords_extra |-> Chars(extra),
     image |-> Chars(image)]

\* A plain row, a row with every optional column filled, and the three ways
\* of a row that lacks a mandatory field.
RowPlain == Row("A", URL_A, "", "", "")

Rows ==
    { RowPlain,
      Row("\tB ", URL_B, "vip", "Gift |\t|", "m.png"),
      Row("", URL_A, "", "", ""),
      Row(" \t", URL_B, "vip", "", "m.png"),
      Row("A", <<>>, "", "", "") }

CsvFiles ==
    {None}
        \cup {Some([fieldnames |-> REQUIRED_COLUMNS, rows |-> rs]) :
                 rs \in UNION {[1..n -> Rows] : n \in 0..MaxRows}}
        \cup {Some([fieldnames |-> REQUIRED_COLUMNS \ {"image"}, rows |-> rs]) :
                 rs \in {<<>>, <<RowPlain>>}}
        \cup {Some([fieldnames |-> {}, rows |-> <<>>])}

YamlEntry(name, url, hint) ==
    [name |-> Chars(name), url |-> url, country |-> None,
     sale_type_hint |-> hint, signals_any |-> << Chars(" Gift "), <<>> >>]

YamlFiles ==
    {None, Some(<< YamlEntry("Y", <<>>, None), YamlEntry("Z", URL_A, Some(Chars("vip"))) >>)}

\* The parts the pages are written from:
\*   [tag |-> "text", s |-> chars]       character data
\*   [tag |-> "script", s |-> chars]     <script>s</script>
\*   [tag |-> "og", s |-> chars]         <meta property="og:image" content="s">
\*   [tag |-> "twitter", s |-> chars]    <meta name="twitter:image" content="s">
\*   [tag |-> "img", s |-> chars]        <img src="s">
\*   [tag |-> "og_content_first", s |-> chars]
\*                                       <meta content="s" property="og:image">
\*   [tag |-> "twitter_content_first", s |-> chars]
\*                                       <meta content='s' name='twitter:image'>
\* and n is the number of times the part stands in the page in a row.
Text(str) == [tag |-> "text", s |-> Chars(str), n |-> 1]
Script(str) == [tag |-> "script", s |-> Chars(str), n |-> 1]
MetaOg(str) == [tag |-> "og", s |-> Chars(str), n |-> 1]
MetaTwitter(str) == [tag |-> "twitter", s |-> Chars(str), n |-> 1]
Img(str) == [tag |-> "img", s |-> Chars(str), n |-> 1]

\* The characters of a part as they stand in the page.
Render(part) ==
    LET once ==
            IF part.tag = "text" THEN part.s
            ELSE IF part.tag = "script"
                 THEN Chars("<script>") \o part.s \o Chars("</script>")
            ELSE IF part.tag = "og"
                 THEN Chars("<meta property=\"og:image\" content=\"") \o part.s
                          \o Chars("\">")
            ELSE IF part.tag = "twitter"
                 THEN Chars("<META name='twitter:image' content='") \o part.s
                          \o Chars("'/>")
            ELSE IF part.tag = "og_content_first"
                 THEN Chars("<meta content=\"") \o part.s
                          \o Chars("\" property=\"og:image\">")
            ELSE IF part.tag = "twitter_content_first"
                 THEN Chars("<meta content='") \o part.s
                          \o Chars("' name='twitter:image'>")
            ELSE Chars("<img alt=\"\" src=\"") \o part.s \o Chars("\">")
    IN  [k \in 1..(part.n * Len(once)) |-> once[((k - 1) % Len(once)) + 1]]

\* The page made of the parts, in document order.
Html(parts) == Concat([k \in 1..Len(parts) |-> Render(parts[k])])

\* An outlet page, a login page and a plain page.
Pages ==
    { Html(<< Text("Outlet\tSALE up to\n30% login"), Img("/img/logo.png"),
              Img("b.jpg") >>),
      Html(<< MetaOg("https://cdn.kr/logo.png"), Text("\n  Sign in \r\n") >>),
      Html(<< Text("hello"), Script("SALE 50%"), Text("\n") >>) }

\* What fetch_html answers: a page, or an exception it lets through, of which
\* error is str(e) (a TimeoutError() has no message).
Responses ==
    {[ok |-> TRUE, html |-> p, error |-> <<>>] : p \in Pages}
        \cup {[ok |-> FALSE, html |-> <<>>, error |-> e] : e \in {Chars("timed out"), <<>>}}

\* What the steps of the try block can do: all return (step "none"), or one
\* raises an exception whose str() is error (a MemoryError has no message).
Faults ==
    {[step |-> "none", error |-> <<>>]}
        \cup {[step |-> STEPS[k], error |-> <<>>] : k \in 1..Len(STEPS)}

\* ---------------------------------------------------------------------------
\* The run: actions
\* ---------------------------------------------------------------------------

Init ==
    /\ csv_file \in CsvFiles
    /\ yaml_file \in YamlFiles
    /\ yaml_lib \in BOOLEAN
    /\ pc = "start"
    /\ brands = <<>>
    /\ source = "none"
    /\ checked_at = None
    /\ cur = None
    /\ results = <<>>
    /\ extracted = <<>>
    /\ fetches = 0
    /\ written = 0
    /\ out_file = None
    /\ arg = [fn |-> "none"]
    /\ ret = None

\* main, line 327: load_brands() returns the brands or raises.
Load ==
    /\ pc = "start"
    /\ LET r == load_brands(csv_file, yaml_file, yaml_lib) IN
       IF r.raised
       THEN /\ pc' = "aborted"
            /\ UNCHANGED <<brands, source, checked_at>>
       ELSE /\ pc' = "loop"
            /\ brands' = r.brands
            /\ source' = r.source
            /\ checked_at' = Some("now")
    /\ UNCHANGED <<env, cur, results, extracted, fetches, written, out_file, arg, ret>>

\* main, line 335: fetch_html(b.url) for the next brand.
Fetch ==
    /\ pc = "loop"
    /\ Len(results) < Len(brands)
    /\ \E resp \in Responses : cur' = Some(resp)
    /\ fetches' = fetches + 1
    /\ pc' = "fetched"
    /\ UNCHANGED <<env, brands, source, checked_at, results, extracted, written, out_file, arg, ret>>

\* main, lines 336-383: the rest of the iteration appends one record.
Assemble ==
    /\ pc = "fetched"
    /\ \E fault \in Faults :
          LET it == Iteration(brands[Len(results) + 1], cur[1], fault, checked_at[1]) IN
          /\ results' = Append(results, it.record)
          /\ extracted' = Append(extracted, it.extracted)
    /\ cur' = None
    /\ pc' = "loop"
    /\ UNCHANGED <<env, brands, source, checked_at, fetches, written, out_file, arg, ret>>

\* main, lines 385-389: after the loop, the report is written.
WriteReport ==
    /\ pc = "loop"
    /\ Len(results) = Len(brands)
    /\ out_file' = Some(results)
    /\ written' = written + 1
    /\ pc' = "done"
    /\ UNCHANGED <<env, brands, source, checked_at, cur, results, extracted, fetches, arg, ret>>

Next == Load \/ Fetch \/ Assemble \/ WriteReport

Spec == Init /\ [][Next]_vars

\* ---------------------------------------------------------------------------
\* The detectors called on their own: one call, from arguments drawn from
\* the texts that a few chunks make up.
\* ---------------------------------------------------------------------------

\* The texts made of at most n chunks.
Texts(chunks, n) == {Concat(f) : f \in UNION {[1..k -> chunks] : k \in 0..n}}

\* The run's variables while a detector is called on its own.
Idle ==
    /\ csv_file = None
    /\ yaml_file = None
    /\ yaml_lib = FALSE
    /\ brands = <<>>
    /\ source = "none"
    /\ checked_at = None
    /\ cur = None
    /\ results = <<>>
    /\ extracted = <<>>
    /\ fetches = 0
    /\ written = 0
    /\ out_file = None

UnchangedRun ==
    UNCHANGED << csv_file, yaml_file, yaml_lib, brands, source, checked_at, cur,
                 results, extracted, fetches, written, out_file >>

\* extract_max_discount(text)
MaxDiscountChunks == 3

DiscountChunks ==
    { Chars("up to "), Chars("UP TO"), Chars("Max "), <<Hangul.choe, Hangul.dae, " ">>,
      Chars("30% "), Chars("70% "), Chars("100% "), Chars("5"), Chars("0"),
      Chars("-"), Chars("~"), Chars("x "), Chars("\t"), Chars("\n") }

InitDiscount ==
    /\ Idle
    /\ pc = "call"
    /\ arg \in {[fn |-> "extract_max_discount", text |-> t] :
                   t \in Texts(DiscountChunks, MaxDiscountChunks)}
    /\ ret = None

CallDiscount ==
    /\ pc = "call"
    /\ arg.fn = "extract_max_discount"
    /\ ret' = extract_max_discount(arg.text)
    /\ pc' = "return"
    /\ UnchangedRun
    /\ UNCHANGED arg

SpecDiscount == InitDiscount /\ [][CallDiscount]_vars

\* infer_sale_type(text, hint)
MaxTypeChunks == 2

TypeChunks ==
    { Chars("Outlet "), <<Hangul.a, Hangul.ul, Hangul.ret>>, Chars("refurb"), <<Hangul.ri, Hangul.peo>>,
      Chars("Season"), Chars("off"), Chars("-"), Chars("SeasonOff "),
      Chars("Members Only "),
      <<Hangul.hoe, Hangul.won, Hangul.jeon, Hangul.yong>>, Chars("login"), Chars("sale ") }

InitSaleType ==
    /\ Idle
    /\ pc = "call"
    /\ arg \in {[fn |-> "infer_sale_type", text |-> t, hint |-> h] :
                   t \in Texts(TypeChunks, MaxTypeChunks), 
                   h \in {None, Some(<<>>), Some(Chars("vip")), Some(Chars("refurb"))}}
    /\ ret = None

CallSaleType ==
    /\ pc = "call"
    /\ arg.fn = "infer_sale_type"
    /\ ret' = infer_sale_type(arg.text, arg.hint)
    /\ pc' = "return"
    /\ UnchangedRun
    /\ UNCHANGED arg

SpecSaleType == InitSaleType /\ [][CallSaleType]_vars

\* detect_sale(text, keywords)
MaxDetectChunks == 2
MaxKeywords == 2

DetectChunks ==
    { Chars("sale"), Chars("SALE"), Chars("Sa"), Chars("le"), <<Hangul.se>>, <<Hangul.il>>,
      Chars("%") }

InitDetect ==
    /\ Idle
    /\ pc = "call"
    /\ arg \in {[fn |-> "detect_sale", text |-> t, keywords |-> ks] :
                   t \in Texts(DetectChunks, MaxDetectChunks),
                   ks \in UNION {[1..n -> { <<>>, Chars("SALE"), Chars("Sale"),
                                             Chars("sale"), <<Hangul.se, Hangul.il>>,
                                             Chars("%") }] : n \in 0..MaxKeywords}}
    /\ ret = None

CallDetect ==
    /\ pc = "call"
    /\ arg.fn = "detect_sale"
    /\ ret' = detect_sale(arg.text, arg.keywords)
    /\ pc' = "return"
    /\ UnchangedRun
    /\ UNCHANGED arg

SpecDetect == InitDetect /\ [][CallDetect]_vars

\* extract_auto_image(html, page_url); page holds the parts html is written
\* from.  Among the parts are a run of MaxImgs <img> elements that the loop
\* rejects, which fills imgs[:60], and meta elements written content first,
\* which the regular expressions do not match.
MaxParts == 2

ImageParts ==
    { Text("hi"),
      MetaOg("https://cdn.kr/Logo.png"), MetaOg("\t/og/main.jpg "), MetaOg(""),
      MetaTwitter("/tw/favicon.png"), MetaTwitter("tw.webp"),
      Img("/img/logo.png"), Img("img/GNB_top.png"), Img("/footer/f.jpg"),
      Img("pic.gif"), Img("https://cdn.kr/b/hero.JPEG"), Img("Loading.jpg"),
      Img("../lo\tgo.png"),
      [tag |-> "img", s |-> Chars("logo.png"), n |-> MaxImgs],
      [tag |-> "og_content_first", s |-> Chars("/og/rev.png"), n |-> 1],
      [tag |-> "twitter_content_first", s |-> Chars("/tw/rev.png"), n |-> 1] }

InitImage ==
    /\ Idle
    /\ pc = "call"
    /\ arg \in {[fn |-> "extract_auto_image", page |-> ps, html |-> Html(ps),
                   page_url |-> u] :
                   ps \in UNION {[1..n -> ImageParts] : n \in 0..MaxParts},
                   u \in {URL_A, URL_B}}
    /\ ret = None

CallImage ==
    /\ pc = "call"
    /\ arg.fn = "extract_auto_image"
    /\ ret' = extract_auto_image(arg.html, arg.page_url)
    /\ pc' = "return"
    /\ UnchangedRun
    /\ UNCHANGED arg

SpecImage == InitImage /\ [][CallImage]_vars

\* ---------------------------------------------------------------------------
\* What the specification says, stated without the code's operators
\* ---------------------------------------------------------------------------

\* A string that is empty or all blanks.
Blank(str) == \A i \in 1..Len(str) : str[i] \in WhitespaceChars

\* Two characters that are equal up to the case of a Latin letter.
EqIgnoringCase(c, d) ==
    c = d \/ \E i \in 1..Len(LowerLetters) : {c, d} = {LowerLetters[i], UpperLetters[i]}

\* kw occurs in text up to letter case.
OccursIgnoringCase(kw, text) ==
    \E off \in 0..(Len(text) - Len(kw)) :
        \A j \in 1..Len(kw) : EqIgnoringCase(text[off + j], kw[j])

\* kw occurs in text exactly.
OccursExactly(kw, text) ==
    \E off \in 0..(Len(text) - Len(kw)) : \A j \in 1..Len(kw) : text[off + j] = kw[j]

HasUpperLatin(kw) == \E i \in 1..Len(kw) : \E j \in 1..Len(UpperLetters) : kw[i] = UpperLetters[j]

\* The matching rule of section 4.1: a phrase with an uppercase Latin letter
\* matches whatever the case of the text, any other phrase as an exact
\* substring.
PhraseMatches(kw, text) ==
    IF HasUpperLatin(kw) THEN OccursIgnoringCase(kw, text) ELSE OccursExactly(kw, text)

\* The rows or entries of the source the brands were loaded from.
ConfigEntries ==
    IF source = "csv" THEN csv_file[1].rows
    ELSE IF source = "yaml" THEN yaml_file[1]
    ELSE <<>>

Survives(entry) == ~Blank(entry.name) /\ ~Blank(entry.url)

Surviving == SelectSeq(ConfigEntries, Survives)

\* ---------------------------------------------------------------------------
\* C1
\* ---------------------------------------------------------------------------

\* C1: at every point of a run the records appended so far are, in order and
\* one each, those of the first rows (entries) of the configuration that have
\* a non-blank name and url; a run that loaded its brands ends with exactly
\* one record per such row, whatever failed on the way, and a row with a
\* blank name or url has no record.
C1_OneRecordPerBrand ==
    /\ Len(results) <= Len(Surviving)
    /\ \A k \in 1..Len(results) :
          /\ results[k].brand = Strip(Surviving[k].name)
          /\ results[k].url = Strip(Surviving[k].url)
    /\ pc = "done" => Len(results) = Len(Surviving) /\ out_file = Some(results)
    /\ pc = "fetched" => Len(results) < Len(Surviving)

\* A finished run over two brands in which the first brand failed and the
\* second did not.
C1_Witness ==
    /\ pc = "done"
    /\ Len(results) = 2
    /\ results[1].status = "error"
    /\ results[2].status /= "error"
    /\ results[1].brand /= results[2].brand

\* ---------------------------------------------------------------------------
\* C2
\* ---------------------------------------------------------------------------

\* C2: every error record has a non-empty error string, the brand's raw hint
\* as sale_type, and every other signal absent or false.
C2_ErrorRecordShape ==
    \A k \in 1..Len(results) :
        results[k].status = "error" =>
            /\ results[k].error /= None
            /\ results[k].error[1] /= <<>>
            /\ results[k].sale_type = brands[k].sale_type_hint
            /\ results[k].matched_keyword = None
            /\ results[k].members_only = FALSE
            /\ results[k].max_discount_hint = None
            /\ results[k].image = None

\* ---------------------------------------------------------------------------
\* C5
\* ---------------------------------------------------------------------------

\* C5: extract_auto_image is never called for a brand with a manual image,
\* and the record of such a brand carries the manual image.
C5_ManualImageSkipsExtraction ==
    \A k \in 1..Len(results) :
        brands[k].image /= None =>
            /\ ~extracted[k]
            /\ results[k].status /= "error" => results[k].image = brands[k].image

\* ---------------------------------------------------------------------------
\* C8
\* ---------------------------------------------------------------------------

HeaderMissing == csv_file /= None /\ ~(REQUIRED_COLUMNS \subseteq csv_file[1].fieldnames)

CsvUsable ==
    /\ csv_file /= None
    /\ \E k \in 1..Len(csv_file[1].rows) : Survives(csv_file[1].rows[k])

YamlUsable ==
    /\ yaml_file /= None
    /\ yaml_lib
    /\ \E k \in 1..Len(yaml_file[1]) : Survives(yaml_file[1][k])

\* Configuration loading fails: a required column is missing, or no source
\* is usable.
ConfigFails == HeaderMissing \/ (~CsvUsable /\ ~YamlUsable)

\* C8: the report is written at most once, and only once every brand has its
\* record; a run whose configuration fails to load aborts with no fetch
\* issued and no report written.
C8_ReportWrittenOnceAtEnd ==
    /\ written <= 1
    /\ written = 1 => pc = "done" /\ Len(results) = Len(brands) /\ out_file = Some(results)
    /\ written = 0 => out_file = None
    /\ pc = "done" => written = 1
    /\ (ConfigFails /\ pc /= "start") => pc = "aborted"
    /\ pc = "aborted" => fetches = 0 /\ written = 0 /\ out_file = None /\ results = <<>>

\* A run aborted on a missing column although the file has a valid row and
\* config.yaml is usable.
C8_Witness ==
    /\ pc = "aborted"
    /\ HeaderMissing
    /\ csv_file[1].rows /= <<>>
    /\ YamlUsable

\* ---------------------------------------------------------------------------
\* C9
\* ---------------------------------------------------------------------------

\* C9: when brands.csv and config.yaml both exist, the brands of the run
\* never come from config.yaml.
C9_CsvAuthoritative ==
    (csv_file /= None /\ yaml_file /= None) => source /= "yaml"

\* ---------------------------------------------------------------------------
\* C3
\* ---------------------------------------------------------------------------

\* The numbers of a sequence that lie in [1, 95].
InRange(cands) == {n \in {cands[i] : i \in 1..Len(cands)} : 1 <= n /\ n <= 95}

\* The candidates of the high-confidence patterns and of the bare pattern.
Tier1(text) ==
    FindAll("upto", StrUpper(text), 1) \o FindAll("max", StrUpper(text), 1)
        \o FindAll("range", StrUpper(text), 1)

Tier2(text) == FindAll("bare", StrUpper(text), 1)

LargestOrNone(ns) ==
    IF ns = {} THEN None ELSE Some(CHOOSE x \in ns : \A y \in ns : y <= x)

\* The cascade of section 4.4: the first tier with a candidate in range wins.
Cascade(text) ==
    IF InRange(Tier1(text)) /= {} THEN LargestOrNone(InRange(Tier1(text)))
    ELSE LargestOrNone(InRange(Tier2(text)))

\* C3 as stated: the result is the largest in-range candidate of the
\* high-confidence tier when there is one, and of the bare "n%" tier only
\* otherwise.
C3_FirstTierWins == pc = "return" => ret = Cascade(arg.text)

\* C3 as amended: the result is the largest candidate in [1, 95] over the two
\* tiers together, absent when there is none, so a bare "n%" larger than
\* every high-confidence candidate is the result; it is absent or in [1, 95].
C3_MaxOverAllTiers ==
    pc = "return" =>
        /\ ret = LargestOrNone(InRange(Tier1(arg.text)) \cup InRange(Tier2(arg.text)))
        /\ ret /= None => ret[1] \in 1..95

\* A text with a high-confidence candidate in range and a larger bare "n%".
C3_Witness ==
    /\ pc = "return"
    /\ InRange(Tier1(arg.text)) /= {}
    /\ ret /= None
    /\ \A n \in InRange(Tier1(arg.text)) : n < ret[1]

\* ---------------------------------------------------------------------------
\* C4
\* ---------------------------------------------------------------------------

CATEGORY_ORDER ==
    << Chars("clearance"), Chars("refurb"), Chars("season_off"), Chars("members_only") >>

\* Some phrase of the category matches the text.
CategoryMatches(category, text) ==
    \E r \in 1..Len(SALE_TYPE_RULES) :
        /\ SALE_TYPE_RULES[r].sale_type = category
        /\ \E k \in 1..Len(SALE_TYPE_RULES[r].kws) :
              PhraseMatches(SALE_TYPE_RULES[r].kws[k], text)

\* The first category of the fixed order with a matching phrase, if any.
FirstCategory(text) ==
    IF \E c \in 1..Len(CATEGORY_ORDER) : CategoryMatches(CATEGORY_ORDER[c], text)
    THEN Some(CATEGORY_ORDER[CHOOSE c \in 1..Len(CATEGORY_ORDER) :
                  /\ CategoryMatches(CATEGORY_ORDER[c], text)
                  /\ \A d \in 1..(c - 1) : ~CategoryMatches(CATEGORY_ORDER[d], text)])
    ELSE None

\* C4: a non-empty hint is returned verbatim whatever the text; without one
\* the result is the first of clearance, refurb, season_off, members_only
\* that has a phrase matching the text, and no category when none has.
C4_HintThenPriorityOrder ==
    pc = "return" =>
        ret = IF arg.hint /= None /\ arg.hint[1] /= <<>> THEN arg.hint
              ELSE FirstCategory(arg.text)

\* A text with a clearance phrase and a members-only phrase, and no hint.
C4_Witness ==
    /\ pc = "return"
    /\ arg.hint = None
    /\ CategoryMatches(Chars("clearance"), arg.text)
    /\ CategoryMatches(Chars("members_only"), arg.text)
    /\ ret = Some(Chars("clearance"))

\* ---------------------------------------------------------------------------
\* C6
\* ---------------------------------------------------------------------------

\* The positions of the non-empty keywords that match the text.
MatchingAt(text, keywords) ==
    {i \in 1..Len(keywords) : keywords[i] /= <<>> /\ PhraseMatches(keywords[i], text)}

\* C6: the result is (true, k) for the first keyword k of the list that is
\* not empty and matches, and (false, absent) when there is none; a keyword
\* with an uppercase Latin letter matches whatever the case of the text, any
\* other keyword only as an exact substring.
C6_FirstMatchingKeyword ==
    pc = "return" =>
        IF MatchingAt(arg.text, arg.keywords) = {}
        THEN ret = [is_sale |-> FALSE, matched |-> None]
        ELSE ret = [is_sale |-> TRUE,
                    matched |-> Some(arg.keywords[
                        CHOOSE i \in MatchingAt(arg.text, arg.keywords) :
                            \A j \in MatchingAt(arg.text, arg.keywords) : i <= j])]

\* Two keywords match, the first only up to letter case, and the first is the
\* one reported.
C6_Witness ==
    /\ pc = "return"
    /\ MatchingAt(arg.text, arg.keywords) = {1, 2}
    /\ arg.keywords[1] /= arg.keywords[2]
    /\ ~OccursExactly(arg.keywords[1], arg.text)
    /\ ret = [is_sale |-> TRUE, matched |-> Some(arg.keywords[1])]

\* ---------------------------------------------------------------------------
\* C7
\* ---------------------------------------------------------------------------

\* The denylist of section 4.5.
SPEC_DENYLIST ==
    { Chars("logo"), Chars("icon"), Chars("sprite"), Chars("favicon"), Chars("blank"),
      Chars("loading"), Chars("common"), Chars("gnb"), Chars("footer") }

\* The part of it that extract_auto_image tests, on <img> sources only.
IMG_ONLY_DENYLIST ==
    { Chars("logo"), Chars("icon"), Chars("sprite"), Chars("blank"), Chars("loading"),
      Chars("common") }

RASTER_EXTENSIONS == { Chars(".jpg"), Chars(".jpeg"), Chars(".png"), Chars(".webp") }

\* The non-empty contents of the elements of a page that carry the tag, in
\* document order, a part that stands n times in a row counting n times.  A
\* meta element whose content attribute comes before its property or name
\* attribute carries a tag of its own ("og_content_first",
\* "twitter_content_first"), so it is neither an og:image nor a twitter:image
\* element here.
ContentsOf(page, tag) ==
    LET each == Concat([i \in 1..Len(page) |-> [k \in 1..page[i].n |-> page[i]]])
        at == SelectSeq([i \in 1..Len(each) |-> i],
                        LAMBDA i : each[i].tag = tag /\ each[i].s /= <<>>)
    IN  [k \in 1..Len(at) |-> each[at[k]].s]

\* An <img> source that passes: none of the six words, a raster extension.
ImgPasses(src) ==
    /\ \A d \in IMG_ONLY_DENYLIST : ~OccursIgnoringCase(d, src)
    /\ \E e \in RASTER_EXTENSIONS : OccursIgnoringCase(e, src)

\* C7 as stated: the URL returned never contains, lowercased, one of logo,
\* icon, sprite, favicon, blank, loading, common, gnb, footer.
C7_NeverDenylisted ==
    (pc = "return" /\ ret /= None) =>
        \A d \in SPEC_DENYLIST : ~OccursIgnoringCase(d, ret[1])

\* C7 as amended: only <img> sources are filtered, and only the first 60 of
\* them are looked at.  The first non-empty content of an og:image meta
\* element that names its property before its content is returned whatever
\* it holds, else the first non-empty content of such a twitter:image meta
\* element whatever it holds, else the first among the first 60 non-empty
\* <img> sources that holds none of logo, icon, sprite, blank, loading,
\* common and holds a raster extension, each stripped and then resolved
\* against the page address as urljoin does it (which drops tabs and line
\* breaks, so that the resolved address may spell one of the six words);
\* else the result is absent, also when a later <img> source would pass.
C7_OnlyImgFiltered ==
    pc = "return" =>
        LET og == ContentsOf(arg.page, "og")
            tw == ContentsOf(arg.page, "twitter")
            imgs == ContentsOf(arg.page, "img")
            ok == {i \in 1..Len(imgs) : i <= 60 /\ ImgPasses(imgs[i])}
        IN  IF og /= <<>> THEN ret = Some(resolve_url(arg.page_url, Strip(og[1])))
            ELSE IF tw /= <<>> THEN ret = Some(resolve_url(arg.page_url, Strip(tw[1])))
            ELSE IF ok /= {}
                 THEN ret = Some(resolve_url(arg.page_url,
                                 Strip(imgs[CHOOSE i \in ok : \A j \in ok : i <= j])))
            ELSE ret = None

\* A page without meta image whose first 60 <img> sources are rejected for
\* a denylisted word alone and whose 61st <img> source would pass: nothing
\* is returned.
C7_Witness ==
    /\ pc = "return"
    /\ ContentsOf(arg.page, "og") = <<>>
    /\ ContentsOf(arg.page, "twitter") = <<>>
    /\ Len(ContentsOf(arg.page, "img")) > 60
    /\ \A i \in 1..60 :
           /\ \E d \in IMG_ONLY_DENYLIST :
                  OccursIgnoringCase(d, ContentsOf(arg.page, "img")[i])
           /\ \E e \in RASTER_EXTENSIONS :
                  OccursIgnoringCase(e, ContentsOf(arg.page, "img")[i])
    /\ ImgPasses(ContentsOf(arg.page, "img")[61])
    /\ ret = None

\* ---------------------------------------------------------------------------
\* C10
\* ---------------------------------------------------------------------------

\* The members-only phrases of section 4.2 match the text.
MembersPhraseMatches(text) ==
    \E k \in 1..Len(MEMBERS_ONLY_KEYWORDS) : PhraseMatches(MEMBERS_ONLY_KEYWORDS[k], text)

\* What C10 says of the record rec appended for brand b whose page reads text.
C10_Record(b, text, rec) ==
    rec.status /= "error" =>
        /\ rec.members_only = MembersPhraseMatches(text)
        /\ (b.sale_type_hint = None /\ FirstCategory(text) = None) =>
              rec.sale_type = IF rec.members_only THEN Some(MEMBERS_ONLY) ELSE None
        /\ rec.members_only => rec.sale_type /= None
        /\ b.sale_type_hint /= None => rec.sale_type = b.sale_type_hint
        /\ (b.sale_type_hint = None /\ FirstCategory(text) /= None) =>
              rec.sale_type = FirstCategory(text)

\* C10: in a non-error record of a brand without hint whose text matches no
\* category phrase, sale_type is members_only exactly when the members-only
\* detector fired and absent otherwise; in every non-error record
\* members_only implies a sale_type, and a hint or an inferred category is
\* kept as it is.
C10_MembersOnlyFallback ==
    [][(pc = "fetched" /\ pc' = "loop") =>
          C10_Record(brands[Len(results) + 1], normalize_text(cur[1].html),
                     results'[Len(results) + 1])]_vars

\* A record of a brand without hint that got members_only from the fallback:
\* no page of the run holds a members-only category phrase.
C10_Witness ==
    \E k \in 1..Len(results) :
        /\ results[k].status /= "error"
        /\ brands[k].sale_type_hint = None
        /\ results[k].members_only
        /\ results[k].sale_type = Some(MEMBERS_ONLY)

====
